---- MODULE Spec2Model ----
(***************************************************************************)
(* Model of src/src/systemctl-types.c: owned strings, string lists and the *)
(* sorted string-keyed dictionaries (str_dict, str_list_dict,              *)
(* str_list_dict_dict) with their binary searches, upserts, removal and    *)
(* the cut / slice helpers.                                                *)
(*                                                                         *)
(* A C string is modelled by its bytes (a sequence over Bytes); where the  *)
(* code depends on the terminating NUL (str_cut), the buffer with its NUL  *)
(* byte is modelled explicitly.  Indices of the code are 0-based, TLA+     *)
(* sequences are 1-based: data[i] of the code is data[i+1] here.           *)
(***************************************************************************)
EXTENDS Integers, Sequences, FiniteSets, TLC

\* ---------------------------------------------------------------- bounds
MaxKeyLen == 2      \* longest key of the arrays the binary searches are run on
MaxFindSize == 5    \* largest array handed to the binary searches
MaxLiveSize == 4    \* largest array of the searches followed to their return
MaxDKeyLen == 1     \* longest key handed to the str_dict operations
MaxSize == 3        \* a str_dict at this size takes no further new key
MaxLSize == 2       \* a nested dictionary at this size takes no further new key
MaxListLen == 3     \* longest list stored under one key
MaxSubSize == 1     \* most keys of a submap handed to a dict-dict upsert
MaxCutLen == 3      \* longest string / list handed to cut and slice
MaxIdx == 6         \* indices handed to cut and slice are -MaxIdx..MaxIdx and 100
MaxTextLen == 4     \* longest string handed to split
MaxParts == 3       \* longest list handed to join
MaxMoveLen == 2     \* most cells of the objects handed to the move operations

\* ---------------------------------------------------------------- strings
\* the null pointer of type str_t (no string has the byte -1)
NULL == <<-1>>

\* the bytes strings are made of (0 is the NUL byte)
Bytes == {1, 2}

\* all present strings of at most n bytes
Strs(n) == UNION {[1..k -> Bytes] : k \in 0..n}

Keys == Strs(MaxKeyLen)

\* C integer division truncates toward zero
CDiv(x, y) == IF x >= 0 THEN x \div y ELSE -((-x) \div y)

\* str_len: 0 for the null pointer, strlen otherwise
str_len(str1) == IF str1 = NULL THEN 0 ELSE Len(str1)

\* str_dup: the null pointer stays null, a string is copied byte by byte
str_dup(str1) == IF str1 = NULL THEN NULL ELSE [i \in 1..Len(str1) |-> str1[i]]

\* byte i (0-based) of the NUL-terminated buffer of a present string
ByteAt(s, i) == IF i < Len(s) THEN s[i + 1] ELSE 0

\* strcmp of libc: difference of the first pair of bytes that differ
RECURSIVE strcmp_from(_, _, _)
strcmp_from(s1, s2, i) ==
    IF ByteAt(s1, i) # ByteAt(s2, i) THEN ByteAt(s1, i) - ByteAt(s2, i)
    ELSE IF ByteAt(s1, i) = 0 THEN 0
    ELSE strcmp_from(s1, s2, i + 1)

strcmp(s1, s2) == strcmp_from(s1, s2, 0)

\* str_cmp, lines 70-83
str_cmp(str1, str2) ==
    IF str1 = NULL \/ str2 = NULL THEN
        IF str1 # NULL /\ str2 = NULL THEN -1
        ELSE IF str1 = NULL /\ str2 # NULL THEN 1
        ELSE 0
    ELSE strcmp(str1, str2)

\* str_equal
str_equal(str1, str2) == str_cmp(str1, str2) = 0

\* ---------------------------------------------------------------- binary searches
\* The searches read only the key of each entry; `data` is the array of
\* entries (records with a field key), `size` its length.  A search is a
\* record st = [pc, a, c, e, res]: pc = "loop" while the while(true) loop
\* runs, "done" after a return (res is the returned value), "oob" when the
\* probed index c lies outside the array.

\* find_enter without the early return for size 0: the loop is entered on
\* the empty array
find_enter_noempty(data, none) ==
    [pc |-> "loop", a |-> 0, c |-> CDiv(Len(data), 2), e |-> Len(data), res |-> none]

\* entry of ptr_dict_find and ptr_dict_find_pos up to the first probe
find_enter(data, none) ==
    IF Len(data) = 0
    THEN [pc |-> "done", a |-> 0, c |-> 0, e |-> 0, res |-> none]
    ELSE [pc |-> "loop", a |-> 0, c |-> CDiv(Len(data), 2), e |-> Len(data), res |-> none]

\* find_pos_step without line 840: a midpoint d that collides with c is
\* probed again
find_pos_step_stuck(data, key, st) ==
    IF st.c < 0 \/ st.c >= Len(data) THEN [st EXCEPT !.pc = "oob"]
    ELSE
    LET comp == str_cmp(key, data[st.c + 1].key) IN
    IF comp = 0 THEN [st EXCEPT !.pc = "done", !.res = st.c]
    ELSE IF comp < 0 THEN
        LET b0 == st.a + CDiv(st.c - st.a, 2)
            b  == IF b0 = st.c THEN b0 - 1 ELSE b0
        IN IF b < st.a THEN [st EXCEPT !.pc = "done", !.res = st.c]
           ELSE [st EXCEPT !.e = st.c, !.c = b]
    ELSE
        LET d == st.c + CDiv(st.e - st.c, 2)
        IN IF d >= st.e THEN [st EXCEPT !.pc = "done", !.res = st.c + 1]
           ELSE [st EXCEPT !.a = st.c, !.c = d]

\* find_pos_step with the "no bigger entry" return giving c instead of c+1
find_pos_step_mut(data, key, st) ==
    IF st.c < 0 \/ st.c >= Len(data) THEN [st EXCEPT !.pc = "oob"]
    ELSE
    LET comp == str_cmp(key, data[st.c + 1].key) IN
    IF comp = 0 THEN [st EXCEPT !.pc = "done", !.res = st.c]
    ELSE IF comp < 0 THEN
        LET b0 == st.a + CDiv(st.c - st.a, 2)
            b  == IF b0 = st.c THEN b0 - 1 ELSE b0
        IN IF b < st.a THEN [st EXCEPT !.pc = "done", !.res = st.c]
           ELSE [st EXCEPT !.e = st.c, !.c = b]
    ELSE
        LET d0 == st.c + CDiv(st.e - st.c, 2)
            d  == IF d0 = st.c THEN d0 + 1 ELSE d0
        IN IF d >= st.e THEN [st EXCEPT !.pc = "done", !.res = st.c]
           ELSE [st EXCEPT !.a = st.c, !.c = d]

\* one iteration of the loop of ptr_dict_find_pos
find_pos_step(data, key, st) ==
    IF st.c < 0 \/ st.c >= Len(data) THEN [st EXCEPT !.pc = "oob"]
    ELSE
    LET comp == str_cmp(key, data[st.c + 1].key) IN
    IF comp = 0 THEN [st EXCEPT !.pc = "done", !.res = st.c]
    ELSE IF comp < 0 THEN
        LET b0 == st.a + CDiv(st.c - st.a, 2)
            b  == IF b0 = st.c THEN b0 - 1 ELSE b0
        IN IF b < st.a THEN [st EXCEPT !.pc = "done", !.res = st.c]
           ELSE [st EXCEPT !.e = st.c, !.c = b]
    ELSE
        LET d0 == st.c + CDiv(st.e - st.c, 2)
            d  == IF d0 = st.c THEN d0 + 1 ELSE d0
        IN IF d >= st.e THEN [st EXCEPT !.pc = "done", !.res = st.c + 1]
           ELSE [st EXCEPT !.a = st.c, !.c = d]

\* find_step giving up one probe early on the smaller side: b <= a for b < a
find_step_early(data, key, st) ==
    IF st.c < 0 \/ st.c >= Len(data) THEN [st EXCEPT !.pc = "oob"]
    ELSE
    LET comp == str_cmp(key, data[st.c + 1].key) IN
    IF comp = 0 THEN [st EXCEPT !.pc = "done", !.res = st.c]
    ELSE IF comp < 0 THEN
        LET b0 == st.a + CDiv(st.c - st.a, 2)
            b  == IF b0 = st.c THEN b0 - 1 ELSE b0
        IN IF b <= st.a THEN [st EXCEPT !.pc = "done", !.res = -1]
           ELSE [st EXCEPT !.e = st.c, !.c = b]
    ELSE
        LET d0 == st.c + CDiv(st.e - st.c, 2)
            d  == IF d0 = st.c THEN d0 + 1 ELSE d0
        IN IF d >= st.e THEN [st EXCEPT !.pc = "done", !.res = -1]
           ELSE [st EXCEPT !.a = st.c, !.c = d]

\* one iteration of the loop of ptr_dict_find
find_step(data, key, st) ==
    IF st.c < 0 \/ st.c >= Len(data) THEN [st EXCEPT !.pc = "oob"]
    ELSE
    LET comp == str_cmp(key, data[st.c + 1].key) IN
    IF comp = 0 THEN [st EXCEPT !.pc = "done", !.res = st.c]
    ELSE IF comp < 0 THEN
        LET b0 == st.a + CDiv(st.c - st.a, 2)
            b  == IF b0 = st.c THEN b0 - 1 ELSE b0
        IN IF b < st.a THEN [st EXCEPT !.pc = "done", !.res = -1]
           ELSE [st EXCEPT !.e = st.c, !.c = b]
    ELSE
        LET d0 == st.c + CDiv(st.e - st.c, 2)
            d  == IF d0 = st.c THEN d0 + 1 ELSE d0
        IN IF d >= st.e THEN [st EXCEPT !.pc = "done", !.res = -1]
           ELSE [st EXCEPT !.a = st.c, !.c = d]

RECURSIVE find_pos_run(_, _, _)
find_pos_run(data, key, st) ==
    IF st.pc # "loop" THEN st.res ELSE find_pos_run(data, key, find_pos_step(data, key, st))

RECURSIVE find_run(_, _, _)
find_run(data, key, st) ==
    IF st.pc # "loop" THEN st.res ELSE find_run(data, key, find_step(data, key, st))

\* ptr_dict_find_pos: index of the equal key or of the next bigger one
ptr_dict_find_pos(data, key) == find_pos_run(data, key, find_enter(data, 0))

\* ptr_dict_find: index of the equal key or -1
ptr_dict_find(data, key) == find_run(data, key, find_enter(data, -1))

\* the list-dict searches are the same code over the other entry type
ptr_list_dict_find_pos(data, key) == find_pos_run(data, key, find_enter(data, 0))

ptr_list_dict_find(data, key) == find_run(data, key, find_enter(data, -1))

str_dict_find(data, key) == ptr_dict_find(data, key)

str_dict_find_pos(data, key) == ptr_dict_find_pos(data, key)

str_list_dict_find(data, key) == ptr_list_dict_find(data, key)

str_list_dict_find_pos(data, key) == ptr_list_dict_find_pos(data, key)

str_list_dict_dict_find(data, key) == ptr_list_dict_find(data, key)

str_list_dict_dict_find_pos(data, key) == ptr_list_dict_find_pos(data, key)

\* ---------------------------------------------------------------- str_dict
\* str_sets, lines 1218-1225 (the result is the new *self)
str_sets(self, from) == IF from = NULL THEN self ELSE from

\* InsertAt without the shift loop: the new entry is stored behind the old ones
InsertAt_noshift(data, pos, entry) ==
    [i \in 1..(Len(data) + 1) |-> IF i <= Len(data) THEN data[i] ELSE entry]

\* the array after the shift loop and the store at data[pos], lines 1443-1450
InsertAt(data, pos, entry) ==
    [i \in 1..(Len(data) + 1) |->
        IF i - 1 < pos THEN data[i] ELSE IF i - 1 = pos THEN entry ELSE data[i - 1]]

\* the array without data[pos], the two copy loops of lines 1656-1663
RemoveAt(data, pos) ==
    [i \in 1..(Len(data) - 1) |-> IF i - 1 < pos THEN data[i] ELSE data[i + 1]]

\* the test of line 1439: find_pos landed on an entry with an equal key
AtEqualKey(data, pos, key) == pos < Len(data) /\ str_equal(data[pos + 1].key, key)

\* str_dict_adds, lines 1430-1452: the array after the call
str_dict_adds(data, key, value) ==
    IF key = NULL THEN data
    ELSE LET pos == str_dict_find_pos(data, key) IN
         IF AtEqualKey(data, pos, key)
         THEN [data EXCEPT ![pos + 1].value = str_sets(@, value)]
         ELSE InsertAt(data, pos, [key |-> str_dup(key), value |-> value])

\* str_dict_add, lines 1454-1458
str_dict_add(data, key, value) == str_dict_adds(data, key, str_dup(value))

\* str_dict_get, lines 651-660: linear scan, value of the first equal key
RECURSIVE str_dict_get_from(_, _, _)
str_dict_get_from(data, key, i) ==
    IF i >= Len(data) THEN NULL
    ELSE IF str_cmp(data[i + 1].key, key) = 0 THEN data[i + 1].value
    ELSE str_dict_get_from(data, key, i + 1)

str_dict_get(data, key) == str_dict_get_from(data, key, 0)

\* str_dict_contains, lines 958-962
str_dict_contains(data, key) == str_dict_find(data, key) >= 0

\* the call adds an entry (it does not land on an equal key)
Grows(data, key) ==
    key # NULL /\ ~AtEqualKey(data, str_dict_find_pos(data, key), key)

\* ---------------------------------------------------------------- str_list
\* A pointer to a container (str_list_t*, str_list_dict_t*) is a record:
\* the null pointer, or the container at it.
NullPtr == [null |-> TRUE, at |-> <<>>]

Ptr(x) == [null |-> FALSE, at |-> x]

\* str_list_copy, lines 1095-1106: self after the call
str_list_copy(from) == [i \in 1..Len(from) |-> str_dup(from[i])]

\* str_list_dup, lines 1176-1184
str_list_dup(self) == IF self.null THEN NullPtr ELSE Ptr(str_list_copy(self.at))

\* str_list_adds_all storing the incoming elements in front of the old ones
str_list_adds_all_front(self, value) ==
    IF value.null \/ Len(value.at) = 0 THEN self
    ELSE [i \in 1..(Len(self) + Len(value.at)) |->
            IF i <= Len(value.at) THEN value.at[i] ELSE self[i - Len(value.at)]]

\* str_list_adds_all, lines 1359-1371: self after the call
str_list_adds_all(self, value) ==
    IF value.null \/ Len(value.at) = 0 THEN self
    ELSE [i \in 1..(Len(self) + Len(value.at)) |->
            IF i <= Len(self) THEN self[i] ELSE value.at[i - Len(self)]]

\* ---------------------------------------------------------------- str_list_dict
\* str_list_dict_adds, lines 1461-1499: the array after the call
\* (for a new key the code reads value->size: value is not null there)
str_list_dict_adds(data, key, value) ==
    IF key = NULL THEN data
    ELSE LET pos == str_list_dict_find_pos(data, key) IN
         IF AtEqualKey(data, pos, key)
         THEN [data EXCEPT ![pos + 1].value = str_list_adds_all(@, value)]
         ELSE InsertAt(data, pos, [key |-> str_dup(key), value |-> value.at])

\* str_list_dict_add, lines 1501-1505
str_list_dict_add(data, key, value) == str_list_dict_adds(data, key, str_list_dup(value))

\* lines 1481 and 1543: value->size is read through a null pointer
DerefsNull(data, key, value) ==
    /\ key # NULL
    /\ ~AtEqualKey(data, ptr_list_dict_find_pos(data, key), key)
    /\ value.null

\* str_list_dict_keys, lines 1040-1050
str_list_dict_keys(data) == [i \in 1..Len(data) |-> str_dup(data[i].key)]

\* str_list_dict_get, lines 662-671: pointer to the value of the first equal key
RECURSIVE str_list_dict_get_from(_, _, _)
str_list_dict_get_from(data, key, i) ==
    IF i >= Len(data) THEN NullPtr
    ELSE IF str_cmp(data[i + 1].key, key) = 0 THEN Ptr(data[i + 1].value)
    ELSE str_list_dict_get_from(data, key, i + 1)

str_list_dict_get(data, key) == str_list_dict_get_from(data, key, 0)

\* str_list_dict_copy, lines 1122-1135: self after the call
str_list_dict_copy(from) ==
    [i \in 1..Len(from) |->
        [key |-> str_dup(from[i].key), value |-> str_list_copy(from[i].value)]]

\* str_list_dict_dup, lines 1196-1204
str_list_dict_dup(self) == IF self.null THEN NullPtr ELSE Ptr(str_list_dict_copy(self.at))

\* str_list_dict_sets without the str_list_dict_null(self) of line 1274: the
\* old entries stay in front of the incoming ones
str_list_dict_sets_keep(self, from) == IF from.null THEN self ELSE self \o from.at

\* str_list_dict_sets, lines 1271-1282: self after the call
str_list_dict_sets(self, from) == IF from.null THEN <<>> ELSE from.at

\* ---------------------------------------------------------------- str_list_dict_dict
\* str_list_dict_dict_adds, lines 1523-1558: the array after the call
str_list_dict_dict_adds(data, key, value) ==
    IF key = NULL THEN data
    ELSE LET pos == str_list_dict_dict_find_pos(data, key) IN
         IF AtEqualKey(data, pos, key)
         THEN [data EXCEPT ![pos + 1].value = str_list_dict_sets(@, value)]
         ELSE InsertAt(data, pos, [key |-> str_dup(key), value |-> value.at])

\* str_list_dict_dict_add, lines 1560-1564
str_list_dict_dict_add(data, key, value) ==
    str_list_dict_dict_adds(data, key, str_list_dict_dup(value))

\* str_list_dict_dict_get, lines 673-682
RECURSIVE str_list_dict_dict_get_from(_, _, _)
str_list_dict_dict_get_from(data, key, i) ==
    IF i >= Len(data) THEN NullPtr
    ELSE IF str_cmp(data[i + 1].key, key) = 0 THEN Ptr(data[i + 1].value)
    ELSE str_list_dict_dict_get_from(data, key, i + 1)

str_list_dict_dict_get(data, key) == str_list_dict_dict_get_from(data, key, 0)

\* ---------------------------------------------------------------- cut
\* STR_END and STR_LIST_END are SSIZE_MAX; the code only compares them with
\* a size, so the largest integer of the checker stands for it
STR_END == 2147483647

STR_LIST_END == 2147483647

\* the C string held by a buffer: its bytes before the first NUL
RECURSIVE CStrFrom(_, _)
CStrFrom(buf, i) ==
    IF i > Len(buf) \/ buf[i] = 0 THEN <<>> ELSE <<buf[i]>> \o CStrFrom(buf, i + 1)

CStr(buf) == CStrFrom(buf, 1)

\* str_cut without line 1681: a negative b is not counted from the end
str_cut_noneg(self, a, b) ==
    IF self = NULL THEN NULL
    ELSE LET size == str_len(self)
             a1 == IF a < 0 THEN size + a ELSE a
             b1 == b
         IN IF a1 < 0 \/ b1 < 0 \/ a1 >= size \/ b1 < a1 THEN str_dup(<<>>)
            ELSE LET b2 == IF b1 >= size THEN size + 1 ELSE b1
                     s == b2 - a1
                     res == [i \in 1..(s + 1) |->
                                IF i <= s THEN ByteAt(self, a1 + i - 1) ELSE 0]
                 IN CStr(res)

\* str_cut, lines 1676-1690: memcpy of s bytes from self+a (the NUL of self
\* is byte size of its buffer), then res[s] = NUL
str_cut(self, a, b) ==
    IF self = NULL THEN NULL
    ELSE LET size == str_len(self)
             a1 == IF a < 0 THEN size + a ELSE a
             b1 == IF b < 0 THEN size + b ELSE b
         IN IF a1 < 0 \/ b1 < 0 \/ a1 >= size \/ b1 < a1 THEN str_dup(<<>>)
            ELSE LET b2 == IF b1 >= size THEN size + 1 ELSE b1
                     s == b2 - a1
                     res == [i \in 1..(s + 1) |->
                                IF i <= s THEN ByteAt(self, a1 + i - 1) ELSE 0]
                 IN CStr(res)

\* str_cut_end, lines 1695-1698
str_cut_end(self, a) == str_cut(self, a, STR_END)

\* str_list_cut, lines 1700-1718.  The loop reads self->data[a+i] for
\* i < s; `behind` is what the read of self->data[size], one element behind
\* the array, delivers.
str_list_cut(self, a, b, behind) ==
    IF self.null THEN NullPtr
    ELSE LET size == Len(self.at)
             a1 == IF a < 0 THEN size + a ELSE a
             b1 == IF b < 0 THEN size + b ELSE b
         IN IF a1 < 0 \/ b1 < 0 \/ a1 >= size \/ b1 < a1 THEN Ptr(<<>>)
            ELSE LET b2 == IF b1 >= size THEN size + 1 ELSE b1
                     s == b2 - a1
                 IN Ptr([i \in 1..s |->
                          IF a1 + i - 1 < size THEN str_dup(self.at[a1 + i])
                          ELSE str_dup(behind)])

\* the call reads self->data[size]
CutReadsBehind(self, a, b) ==
    /\ ~self.null
    /\ LET size == Len(self.at)
           a1 == IF a < 0 THEN size + a ELSE a
           b1 == IF b < 0 THEN size + b ELSE b
       IN ~(a1 < 0 \/ b1 < 0 \/ a1 >= size \/ b1 < a1) /\ b1 >= size

\* ---------------------------------------------------------------- split and join
\* str_list_adds, lines 1345-1351: self after the call
str_list_adds(self, value) == Append(self, value)

\* lines 1806-1808: the first index from x on whose byte is not delim, or n
RECURSIVE skip_delim(_, _, _)
skip_delim(text, delim, x) ==
    IF x < str_len(text) /\ ByteAt(text, x) = delim
    THEN skip_delim(text, delim, x + 1) ELSE x

\* lines 1811-1813: the first index from x on whose byte is delim, or n
RECURSIVE skip_token(_, _, _)
skip_token(text, delim, x) ==
    IF x < str_len(text) /\ ByteAt(text, x) # delim
    THEN skip_token(text, delim, x + 1) ELSE x

\* the outer loop of str_split from index x on, res being the list so far
RECURSIVE split_from(_, _, _, _)
split_from(text, delim, x, res) ==
    IF x >= str_len(text) THEN res
    ELSE LET a == skip_delim(text, delim, x) IN
         IF a = str_len(text) THEN res
         ELSE LET x2 == skip_token(text, delim, a) IN
              split_from(text, delim, x2 + 1, str_list_adds(res, str_cut(text, a, x2)))

\* str_split without the loop of lines 1806-1809 that skips the delimiters
\* in front of a token
RECURSIVE split_from_noskip(_, _, _, _)
split_from_noskip(text, delim, x, res) ==
    IF x >= str_len(text) THEN res
    ELSE LET x2 == skip_token(text, delim, x) IN
         split_from_noskip(text, delim, x2 + 1, str_list_adds(res, str_cut(text, x, x2)))

str_split_noskip(text, delim) == Ptr(split_from_noskip(text, delim, 0, <<>>))

\* str_split, lines 1800-1817: the list returned
str_split(text, delim) == Ptr(split_from(text, delim, 0, <<>>))

\* a cell of a malloc()ed buffer that no one has written yet
Unwritten == -2

\* strcpy(into + p, str1): the bytes of str1 and its NUL go to the cells p ..
\* p + len(str1) of the buffer; str_cpy does nothing for a null pointer
str_cpy(buf, p, str1) ==
    IF str1 = NULL THEN buf
    ELSE [i \in 1..Len(buf) |->
            IF i - 1 >= p /\ i - 1 <= p + Len(str1) THEN ByteAt(str1, i - 1 - p)
            ELSE buf[i]]

\* the first loop of str_copy_str_list: the sum of the lengths
RECURSIVE sum_len(_, _)
sum_len(data, i) ==
    IF i >= Len(data) THEN 0 ELSE str_len(data[i + 1]) + sum_len(data, i + 1)

\* the second loop of str_copy_str_list from element i on
RECURSIVE copy_loop(_, _, _, _)
copy_loop(buf, data, i, p) ==
    IF i >= Len(data) THEN buf
    ELSE copy_loop(str_cpy(buf, p, data[i + 1]), data, i + 1, p + str_len(data[i + 1]))

\* str_copy_str_list, lines 1078-1093: the buffer *self after the call
str_copy_str_list(data) ==
    copy_loop([i \in 1..(sum_len(data, 0) + 1) |-> Unwritten], data, 0, 0)

\* the loop of str_list_join from element i on: the list `join` so far
RECURSIVE join_loop(_, _, _, _)
join_loop(data, delim, i, join) ==
    IF i >= Len(data) THEN join
    ELSE IF data[i + 1] # NULL
         THEN join_loop(data, delim, i + 1,
                  (IF Len(join) # 0 THEN Append(join, str_dup(delim)) ELSE join)
                      \o <<str_dup(data[i + 1])>>)
         ELSE join_loop(data, delim, i + 1, join)

\* str_list_join, lines 1828-1849: the buffer returned
str_list_join(data, delim) == str_copy_str_list(join_loop(data, delim, 0, <<>>))

\* reading the buffer as a C string meets its NUL before any unwritten cell
Terminated(buf) ==
    \E i \in 1..Len(buf) : buf[i] = 0 /\ \A j \in 1..i : buf[j] # Unwritten


\* str_dup4, lines 1154-1162: the buffer returned for the list of the four
\* parts
str_dup4(str1, str2, str3, str4) == str_copy_str_list(<<str1, str2, str3, str4>>)

\* str_dup3, lines 1164-1168
str_dup3(str1, str2, str3) == str_dup4(str1, str2, str3, NULL)

\* str_dup2, lines 1170-1174
str_dup2(str1, str2) == str_dup4(str1, str2, NULL, NULL)

\* the loop of str_list_find from index i on
RECURSIVE str_list_find_from(_, _, _)
str_list_find_from(data, key, i) ==
    IF i >= Len(data) THEN -1
    ELSE IF str_cmp(data[i + 1], key) = 0 THEN i
    ELSE str_list_find_from(data, key, i + 1)

\* str_list_find, lines 707-716
str_list_find(data, key) == str_list_find_from(data, key, 0)

\* str_list_contains, lines 952-956
str_list_contains(data, key) == str_list_find(data, key) >= 0

\* str_list3_contains, lines 976-983: `if (str_cmp(strN, key)) return true`
\* takes the branch when the comparison is not 0
str_list3_contains(str1, str2, str3, key) ==
    IF str_cmp(str1, key) # 0 THEN TRUE
    ELSE IF str_cmp(str2, key) # 0 THEN TRUE
    ELSE IF str_cmp(str3, key) # 0 THEN TRUE
    ELSE FALSE
\* ---------------------------------------------------------------- move operations and the heap
\* A container object is its two fields: size and the pointer data to the
\* array of cells.  A cell of a list is a pointer to an allocated string,
\* named by who allocated it, or the null pointer; a cell of a dictionary is
\* an entry, a cell of a list of lists is a list object.
Elem(o, i) == [of |-> o, at |-> i]

NoElem == [of |-> "null", at |-> 0]

\* the object after str_list_init / str_dict_init / str_list_dict_init
EmptyObj == [size |-> 0, data |-> NullPtr]

\* an object holding the cells
Obj(cells) == [size |-> Len(cells), data |-> Ptr(cells)]

\* the cells data[0 .. size-1] of an object
Cells(o) == IF o.data.null THEN <<>> ELSE SubSeq(o.data.at, 1, o.size)

\* the allocations the loop of str_list_null / str_dict_null /
\* str_list_dict_null releases: every cell that is not null
Owned(o) == {Cells(o)[i] : i \in 1..Len(Cells(o))} \ {NoElem}

\* A call works on m = [self, value, frees, released, ...]: the object self,
\* the pointer value to the source object, the number of free() calls on the
\* source object so far, and the set of released allocations.

\* str_list_null(self), lines 324-338 (str_dict_null and str_list_dict_null
\* are the same code over their entries)
str_list_null(m) ==
    [m EXCEPT !.released = @ \cup Owned(m.self), !.self = EmptyObj]

\* str_list_free(value), lines 427-434
str_list_free(m) ==
    IF m.value.null THEN m
    ELSE [m EXCEPT !.released = @ \cup Owned(m.value.at),
                   !.value = Ptr(EmptyObj),
                   !.frees = @ + 1]

\* the heap after str_list_sets(self, from), lines 1233-1244
str_list_sets_heap(m) ==
    LET m1 == str_list_null(m) IN
    IF m.value.null THEN m1
    ELSE [m1 EXCEPT !.self = [size |-> m.value.at.size, data |-> m.value.at.data],
                    !.value = Ptr(EmptyObj),
                    !.frees = @ + 1]

\* the heap after str_dict_sets(self, from), lines 1252-1263
str_dict_sets_heap(m) ==
    LET m1 == str_list_null(m) IN
    IF m.value.null THEN m1
    ELSE [m1 EXCEPT !.self = [size |-> m.value.at.size, data |-> m.value.at.data],
                    !.value = Ptr(EmptyObj),
                    !.frees = @ + 1]

\* the heap after str_list_dict_sets(self, from), lines 1271-1282
str_list_dict_sets_heap(m) ==
    LET m1 == str_list_null(m) IN
    IF m.value.null THEN m1
    ELSE [m1 EXCEPT !.self = [size |-> m.value.at.size, data |-> m.value.at.data],
                    !.value = Ptr(EmptyObj),
                    !.frees = @ + 1]

\* str_list_adds_all without line 1368: the moved cells stay in the source
str_list_adds_all_heap_keep(m) ==
    IF m.value.null \/ m.value.at.size = 0 THEN m
    ELSE str_list_free([m EXCEPT !.self = Obj(Cells(m.self) \o Cells(m.value.at))])

\* the heap after str_list_adds_all(self, value), lines 1359-1371
str_list_adds_all_heap(m) ==
    IF m.value.null \/ m.value.at.size = 0 THEN m
    ELSE LET moved == Cells(m.value.at) IN
         str_list_free([m EXCEPT
            !.self = Obj(Cells(m.self) \o moved),
            !.value = Ptr([m.value.at EXCEPT
                              !.data = Ptr([i \in 1..Len(moved) |-> NoElem])])])

\* str_list_dup(value), lines 1176-1184, in the heap: a new object with a
\* new string for every present cell
str_list_dup_heap(value) ==
    IF value.null THEN NullPtr
    ELSE Ptr(Obj([i \in 1..value.at.size |->
                    IF Cells(value.at)[i] = NoElem THEN NoElem ELSE Elem("dup", i)]))

\* the heap after str_list_add_all(self, value), lines 1373-1377
str_list_add_all_heap(m) ==
    str_list_adds_all_heap([m EXCEPT !.value = str_list_dup_heap(m.value)])

\* the heap after str_list_list_adds(self, value), lines 1379-1389, for a
\* value that is not null
str_list_list_adds_heap(m) ==
    str_list_free([m EXCEPT
        !.self = Obj(Cells(m.self) \o
                     <<[size |-> m.value.at.size, data |-> m.value.at.data]>>),
        !.value = Ptr(EmptyObj)])

\* the heap after str_list_dict_adds(self, key, value), lines 1461-1499, for
\* a value that is not null when the key is new: the cells of self are the
\* entries, each with its key and its list object
str_list_dict_adds_heap(m) ==
    IF m.key = NULL THEN str_list_free(m)
    ELSE LET data == Cells(m.self)
             pos == str_list_dict_find_pos(data, m.key)
         IN IF AtEqualKey(data, pos, m.key)
            THEN LET sub == str_list_adds_all_heap([m EXCEPT !.self = data[pos + 1].value])
                 IN [sub EXCEPT !.self = Obj([data EXCEPT ![pos + 1].value = sub.self])]
            ELSE str_list_free([m EXCEPT
                    !.self = Obj(InsertAt(data, pos,
                                 [key |-> str_dup(m.key),
                                  value |-> [size |-> m.value.at.size,
                                             data |-> m.value.at.data]])),
                    !.value = Ptr(EmptyObj)])

\* ---------------------------------------------------------------- ptr_dict
\* ptr_dict_adds, lines 1566-1589: the new array, built from the old one by
\* the copy loop below pos, the store at pos and the copy loop from pos on
ptr_dict_adds(data, key, value) ==
    IF key = NULL THEN data
    ELSE LET pos == ptr_dict_find_pos(data, key) IN
         [i \in 1..(Len(data) + 1) |->
            IF i - 1 < pos THEN data[i]
            ELSE IF i - 1 = pos THEN [key |-> str_dup(key), value |-> value]
            ELSE data[i - 1]]

\* ptr_dict_add, lines 1591-1595
ptr_dict_add(data, key, value) == ptr_dict_adds(data, key, str_dup(value))

\* ---------------------------------------------------------------- state
VARIABLES
    search,     \* a running ptr_dict_find / ptr_dict_find_pos call
    dict,       \* str_dict_t: the entries data[0 .. size-1]
    dict_live,  \* the str_dict_t object itself is allocated (not yet free()d)
    ldict,      \* str_list_dict_t: the entries data[0 .. size-1]
    lddict,     \* str_list_dict_dict_t: the entries data[0 .. size-1]
    upserted,   \* history of ldict: per key, the lists upserted at it, in order
    op,         \* the last operation: its name, arguments and the container before it
    cut,        \* a call of str_cut / str_cut_end
    slice,      \* a call of str_list_cut / str_list_cut_end
    text,       \* a call of str_split and / or str_list_join
    mv,         \* a call of a move operation: destination, source object, heap
    pdict,      \* ptr_dict_t: the entries data[0 .. size-1]
    has,        \* calls of str_list3_contains and str_list_contains on the same input
    fault       \* "none", or how the process was terminated

vars == <<search, dict, dict_live, ldict, lddict, upserted, op, cut, slice, text, mv, pdict, has,
          fault>>

\* one-byte strings
OneByte == {<<b>> : b \in Bytes}

\* values stored in a str_dict: the null pointer or a one-byte string
DVals == {NULL} \cup OneByte

\* keys handed to the str_dict operations
DKeys == Strs(MaxDKeyLen)

\* keys of the nested dictionaries: the empty string and the one-byte strings
LKeys == {<<>>} \cup OneByte

\* elements of the lists: the one-byte strings
LElems == OneByte

\* all lists of at most n elements of E
Lists(E, n) == UNION {[1..k -> E] : k \in 0..n}

\* the list arguments of the list-dict upserts: the null pointer, the empty
\* list and the lists of one element
InLists == {Ptr(l) : l \in Lists(LElems, 1)} \cup {NullPtr}

\* the smallest string of a non-empty set under str_cmp
MinStr(S) == CHOOSE x \in S : \A y \in S : str_cmp(x, y) <= 0

\* the strings of S as a strictly ascending array of keys
RECURSIVE SortKeys(_)
SortKeys(S) == IF S = {} THEN <<>> ELSE <<MinStr(S)>> \o SortKeys(S \ {MinStr(S)})

\* the backing arrays the searches are run on: every strictly ascending
\* array of at most MaxFindSize present keys
SortedArrays ==
    {[i \in 1..Cardinality(S) |-> [key |-> SortKeys(S)[i]]] :
        S \in {T \in SUBSET Keys : Cardinality(T) <= MaxFindSize}}

\* the submap arguments of the dict-dict upserts: every str_list_dict of at
\* most MaxSubSize keys, each with a list of one one-byte string
SubMaps ==
    UNION {{[i \in 1..Cardinality(S) |->
                [key |-> SortKeys(S)[i], value |-> <<f[SortKeys(S)[i]]>>]] :
              f \in [S -> OneByte]} :
           S \in {T \in SUBSET LKeys : Cardinality(T) <= MaxSubSize}}

InSubMaps == {Ptr(m) : m \in SubMaps} \cup {NullPtr}

\* the string "hello"
Hello == <<104, 101, 108, 108, 111>>

CutStrs == Strs(MaxCutLen) \cup {Hello, NULL}

CutIdx == (-MaxIdx..MaxIdx) \cup {100}

CutLists == {Ptr(l) : l \in Lists(OneByte, MaxCutLen)} \cup {NullPtr}

\* values of the variables a specification does not use
NoSearch == [fn |-> "none", data |-> <<>>, key |-> NULL,
             pc |-> "idle", a |-> 0, c |-> 0, e |-> 0, res |-> 0]

NoOp == [name |-> "none", key |-> NULL, value |-> NULL, pre |-> <<>>, pc |-> "idle"]

NoCut == [fn |-> "none", self |-> NULL, a |-> 0, b |-> 0, pc |-> "idle", res |-> NULL]

NoSlice == [fn |-> "none", self |-> NullPtr, a |-> 0, b |-> 0, pc |-> "idle",
            res |-> NullPtr, behind |-> FALSE]

NoUpserts == [k \in LKeys |-> <<>>]

NoText == [from |-> "none", pc |-> "idle", s |-> NULL, d |-> 0, parts |-> NullPtr,
           delim |-> NULL, res |-> NULL, written |-> TRUE]

NoMove == [fn |-> "none", pc |-> "idle", self |-> EmptyObj, key |-> NULL,
           value |-> NullPtr, pre |-> EmptyObj, arg |-> NullPtr, frees |-> 0,
           released |-> {}]

NoHas == [pc3 |-> "idle", pcl |-> "idle", list |-> <<>>, key |-> NULL,
          res3 |-> FALSE, resl |-> FALSE]

\* every container freshly initialised (str_dict_init, str_list_dict_init,
\* str_list_dict_dict_init: size 0), no call running
InitAll ==
    /\ search = NoSearch
    /\ dict = <<>> /\ dict_live = TRUE
    /\ ldict = <<>> /\ lddict = <<>>
    /\ upserted = [keys |-> {}, lists |-> NoUpserts]
    /\ op = NoOp
    /\ cut = NoCut /\ slice = NoSlice
    /\ text = NoText /\ mv = NoMove /\ pdict = <<>> /\ has = NoHas
    /\ fault = "none"

\* ---------------------------------------------------------------- the searches, step by step
InitFind ==
    /\ dict = <<>> /\ dict_live = TRUE
    /\ ldict = <<>> /\ lddict = <<>>
    /\ upserted = [keys |-> {}, lists |-> NoUpserts]
    /\ op = NoOp
    /\ cut = NoCut /\ slice = NoSlice
    /\ fault = "none"
    /\ text = NoText /\ mv = NoMove /\ pdict = <<>> /\ has = NoHas
    /\ \E data \in SortedArrays, key \in Keys \cup {NULL}, fn \in {"find", "find_pos"} :
        search = [fn |-> fn, data |-> data, key |-> key,
                  pc |-> "call", a |-> 0, c |-> 0, e |-> 0, res |-> 0]

SetSearch(st) ==
    /\ search' = [search EXCEPT !.pc = st.pc, !.a = st.a, !.c = st.c, !.e = st.e, !.res = st.res]
    /\ UNCHANGED <<dict, dict_live, ldict, lddict, upserted, op, cut, slice, fault, text, mv, pdict, has>>

\* ptr_dict_find_pos, lines 809-818: the early returns and a, e, c
FindPosEnter ==
    /\ search.fn = "find_pos" /\ search.pc = "call"
    /\ SetSearch(find_enter(search.data, 0))

\* ptr_dict_find_pos, lines 819-848: one turn of while(true)
FindPosProbe ==
    /\ search.fn = "find_pos" /\ search.pc = "loop"
    /\ SetSearch(find_pos_step(search.data, search.key, search))

\* ptr_dict_find, lines 722-731
FindEnter ==
    /\ search.fn = "find" /\ search.pc = "call"
    /\ SetSearch(find_enter(search.data, -1))

\* ptr_dict_find, lines 732-758
FindProbe ==
    /\ search.fn = "find" /\ search.pc = "loop"
    /\ SetSearch(find_step(search.data, search.key, search))

NextFind == FindPosEnter \/ FindPosProbe \/ FindEnter \/ FindProbe

SpecFind == InitFind /\ [][NextFind]_vars

\* the searches followed to their return: the arrays of at most MaxLiveSize keys
InitFindLive == InitFind /\ Len(search.data) <= MaxLiveSize

\* the program is one thread that runs on: a call that can take a step takes it
SpecFindLive == InitFindLive /\ [][NextFind]_vars /\ WF_vars(NextFind)

\* ---------------------------------------------------------------- str_dict operations
\* The operations are called one at a time (op.pc = "idle") on a live map
\* object: a call on a released object is undefined from its first read,
\* nothing of it is modelled.  A finished call leaves its record in op.

\* the call has returned and the caller goes on to its next call
Return ==
    /\ fault = "none" /\ op.pc = "done"
    /\ op' = NoOp
    /\ UNCHANGED <<search, dict, dict_live, ldict, lddict, upserted, cut, slice, fault, text, mv, pdict, has>>

\* str_dict_adds(self, key, value)
DictAdds ==
    /\ fault = "none" /\ op.pc = "idle" /\ dict_live
    /\ \E key \in DKeys \cup {NULL}, value \in DVals :
        /\ Grows(dict, key) => Len(dict) < MaxSize
        /\ dict' = str_dict_adds(dict, key, value)
        /\ op' = [name |-> "adds", key |-> key, value |-> value, pre |-> dict, pc |-> "done"]
    /\ UNCHANGED <<search, dict_live, ldict, lddict, upserted, cut, slice, fault, text, mv, pdict, has>>

\* str_dict_add(self, key, value)
DictAdd ==
    /\ fault = "none" /\ op.pc = "idle" /\ dict_live
    /\ \E key \in DKeys \cup {NULL}, value \in DVals :
        /\ Grows(dict, key) => Len(dict) < MaxSize
        /\ dict' = str_dict_add(dict, key, value)
        /\ op' = [name |-> "add", key |-> key, value |-> value, pre |-> dict, pc |-> "done"]
    /\ UNCHANGED <<search, dict_live, ldict, lddict, upserted, cut, slice, fault, text, mv, pdict, has>>

\* What the caller finds in the map after str_dict_del removed data[pos].
\* Line 1653 calls str_dict_sets(&old, self), whose free(from) (line 1261)
\* releases the map object self; lines 1654-1663 then write self->size,
\* self->data and the new array through the dangling pointer, and the
\* malloc of line 1655 may hand out the released block itself.  The result
\* is the intended array, or any array of at most the old size whose
\* entries are copies of old entries (reordered, repeated or lost).
DelOutcomes(old, pos) ==
    {RemoveAt(old, pos)} \cup
    UNION {[1..n -> {old[i] : i \in 1..Len(old)}] : n \in 0..Len(old)}

\* str_dict_del(self, key), lines 1647-1672
DictDel ==
    /\ fault = "none" /\ op.pc = "idle" /\ dict_live
    /\ \E key \in DKeys \cup {NULL} :
        LET pos == str_dict_find(dict, key) IN
        /\ op' = [name |-> "del", key |-> key, value |-> NULL, pre |-> dict, pc |-> "done"]
        /\ IF pos >= 0
           THEN \/ /\ dict' \in DelOutcomes(dict, pos)
                   /\ dict_live' = FALSE
                   /\ fault' = "none"
                \/ \* free() of a map that is no heap block (str_dict_init on a
                   \* struct of the caller) aborts the process
                   /\ dict' = dict
                   /\ dict_live' = FALSE
                   /\ fault' = "abort"
           ELSE UNCHANGED <<dict, dict_live, fault>>
    /\ UNCHANGED <<search, ldict, lddict, upserted, cut, slice, text, mv, pdict, has>>

\* upserts only
NextDictAdds == DictAdds \/ DictAdd \/ Return

SpecDictAdds == InitAll /\ [][NextDictAdds]_vars

\* upserts and removes
NextDict == DictAdds \/ DictAdd \/ DictDel \/ Return

SpecDict == InitAll /\ [][NextDict]_vars

\* ---------------------------------------------------------------- str_list_dict operations
\* the history after an upsert of the list at value under key: a null key
\* and a null list contribute nothing
Record(key, value) ==
    IF key = NULL \/ value.null THEN upserted
    ELSE [keys  |-> upserted.keys \cup {key},
          lists |-> [upserted.lists EXCEPT ![key] = @ \o value.at]]

\* the list stored under key grows to at most MaxListLen elements
ListFits(data, key, value) ==
    LET pos == str_list_dict_find_pos(data, key) IN
    (key # NULL /\ AtEqualKey(data, pos, key) /\ ~value.null)
        => Len(data[pos + 1].value) + Len(value.at) <= MaxListLen

\* str_list_dict_adds(self, key, value)
ListDictAdds ==
    /\ fault = "none" /\ op.pc = "idle"
    /\ \E key \in LKeys \cup {NULL}, value \in InLists :
        /\ Grows(ldict, key) => Len(ldict) < MaxLSize
        /\ ListFits(ldict, key, value)
        /\ op' = [name |-> "adds", key |-> key, value |-> value, pre |-> ldict, pc |-> "done"]
        /\ IF DerefsNull(ldict, key, value)
           THEN /\ fault' = "segv"
                /\ UNCHANGED <<ldict, upserted>>
           ELSE /\ ldict' = str_list_dict_adds(ldict, key, value)
                /\ upserted' = Record(key, value)
                /\ fault' = "none"
    /\ UNCHANGED <<search, dict, dict_live, lddict, cut, slice, text, mv, pdict, has>>

\* str_list_dict_add(self, key, value)
ListDictAdd ==
    /\ fault = "none" /\ op.pc = "idle"
    /\ \E key \in LKeys \cup {NULL}, value \in InLists :
        /\ Grows(ldict, key) => Len(ldict) < MaxLSize
        /\ ListFits(ldict, key, value)
        /\ op' = [name |-> "add", key |-> key, value |-> value, pre |-> ldict, pc |-> "done"]
        /\ IF DerefsNull(ldict, key, str_list_dup(value))
           THEN /\ fault' = "segv"
                /\ UNCHANGED <<ldict, upserted>>
           ELSE /\ ldict' = str_list_dict_add(ldict, key, value)
                /\ upserted' = Record(key, value)
                /\ fault' = "none"
    /\ UNCHANGED <<search, dict, dict_live, lddict, cut, slice, text, mv, pdict, has>>

NextListDict == ListDictAdds \/ ListDictAdd \/ Return

SpecListDict == InitAll /\ [][NextListDict]_vars

\* ---------------------------------------------------------------- str_list_dict_dict operations
\* str_list_dict_dict_adds(self, key, value)
ListDictDictAdds ==
    /\ fault = "none" /\ op.pc = "idle"
    /\ \E key \in LKeys \cup {NULL}, value \in InSubMaps :
        /\ Grows(lddict, key) => Len(lddict) < MaxLSize
        /\ op' = [name |-> "adds", key |-> key, value |-> value, pre |-> lddict, pc |-> "done"]
        /\ IF DerefsNull(lddict, key, value)
           THEN /\ fault' = "segv"
                /\ UNCHANGED lddict
           ELSE /\ lddict' = str_list_dict_dict_adds(lddict, key, value)
                /\ fault' = "none"
    /\ UNCHANGED <<search, dict, dict_live, ldict, upserted, cut, slice, text, mv, pdict, has>>

\* str_list_dict_dict_add(self, key, value)
ListDictDictAdd ==
    /\ fault = "none" /\ op.pc = "idle"
    /\ \E key \in LKeys \cup {NULL}, value \in InSubMaps :
        /\ Grows(lddict, key) => Len(lddict) < MaxLSize
        /\ op' = [name |-> "add", key |-> key, value |-> value, pre |-> lddict, pc |-> "done"]
        /\ IF DerefsNull(lddict, key, str_list_dict_dup(value))
           THEN /\ fault' = "segv"
                /\ UNCHANGED lddict
           ELSE /\ lddict' = str_list_dict_dict_add(lddict, key, value)
                /\ fault' = "none"
    /\ UNCHANGED <<search, dict, dict_live, ldict, upserted, cut, slice, text, mv, pdict, has>>

NextListDictDict == ListDictDictAdds \/ ListDictDictAdd \/ Return

SpecListDictDict == InitAll /\ [][NextListDictDict]_vars

\* ---------------------------------------------------------------- cut and slice
InitCut ==
    /\ search = NoSearch
    /\ dict = <<>> /\ dict_live = TRUE
    /\ ldict = <<>> /\ lddict = <<>>
    /\ upserted = [keys |-> {}, lists |-> NoUpserts]
    /\ op = NoOp
    /\ slice = NoSlice
    /\ fault = "none"
    /\ text = NoText /\ mv = NoMove /\ pdict = <<>> /\ has = NoHas
    /\ \E fn \in {"cut", "cut_end"}, self \in CutStrs, a \in CutIdx :
       \E b \in IF fn = "cut" THEN CutIdx ELSE {STR_END} :
        cut = [fn |-> fn, self |-> self, a |-> a, b |-> b, pc |-> "call", res |-> NULL]

\* str_cut(self, a, b)
StrCut ==
    /\ cut.fn = "cut" /\ cut.pc = "call"
    /\ cut' = [cut EXCEPT !.pc = "done", !.res = str_cut(cut.self, cut.a, cut.b)]
    /\ UNCHANGED <<search, dict, dict_live, ldict, lddict, upserted, op, slice, fault, text, mv, pdict, has>>

\* str_cut_end(self, a)
StrCutEnd ==
    /\ cut.fn = "cut_end" /\ cut.pc = "call"
    /\ cut' = [cut EXCEPT !.pc = "done", !.res = str_cut_end(cut.self, cut.a)]
    /\ UNCHANGED <<search, dict, dict_live, ldict, lddict, upserted, op, slice, fault, text, mv, pdict, has>>

NextCut == StrCut \/ StrCutEnd

SpecCut == InitCut /\ [][NextCut]_vars

InitSlice ==
    /\ search = NoSearch
    /\ dict = <<>> /\ dict_live = TRUE
    /\ ldict = <<>> /\ lddict = <<>>
    /\ upserted = [keys |-> {}, lists |-> NoUpserts]
    /\ op = NoOp
    /\ cut = NoCut
    /\ fault = "none"
    /\ text = NoText /\ mv = NoMove /\ pdict = <<>> /\ has = NoHas
    /\ \E fn \in {"cut", "cut_end"}, self \in CutLists, a \in CutIdx :
       \E b \in IF fn = "cut" THEN CutIdx ELSE {STR_LIST_END} :
        slice = [fn |-> fn, self |-> self, a |-> a, b |-> b, pc |-> "call",
                 res |-> NullPtr, behind |-> FALSE]

\* The call returns.  When it reads self->data[size] (CutReadsBehind) the
\* pointer found there is anything: a null pointer, a string, or a wild
\* pointer on which str_dup faults.
SliceReturns(b) ==
    \/ /\ \E junk \in OneByte \cup {NULL} :
            slice' = [slice EXCEPT !.pc = "done",
                        !.res = str_list_cut(slice.self, slice.a, b, junk),
                        !.behind = CutReadsBehind(slice.self, slice.a, b)]
       /\ fault' = "none"
    \/ /\ CutReadsBehind(slice.self, slice.a, b)
       /\ slice' = [slice EXCEPT !.pc = "fault", !.behind = TRUE]
       /\ fault' = "segv"

\* str_list_cut(self, a, b)
StrListCut ==
    /\ slice.fn = "cut" /\ slice.pc = "call"
    /\ SliceReturns(slice.b)
    /\ UNCHANGED <<search, dict, dict_live, ldict, lddict, upserted, op, cut, text, mv, pdict, has>>

\* str_list_cut_end(self, a)
StrListCutEnd ==
    /\ slice.fn = "cut_end" /\ slice.pc = "call"
    /\ SliceReturns(STR_LIST_END)
    /\ UNCHANGED <<search, dict, dict_live, ldict, lddict, upserted, op, cut, text, mv, pdict, has>>

NextSlice == StrListCut \/ StrListCutEnd

SpecSlice == InitSlice /\ [][NextSlice]_vars


\* ---------------------------------------------------------------- split and join calls
\* the strings handed to str_split
TextStrs == Strs(MaxTextLen) \cup {NULL}

\* the delimiter bytes handed to str_split (0 is the NUL byte)
DelimBytes == {0} \cup Bytes

\* the elements of the lists handed to str_list_join: the null pointer, the
\* empty string and the one-byte strings
PartElems == {NULL} \cup Strs(1)

PartLists == {Ptr(l) : l \in Lists(PartElems, MaxParts)}

\* the delimiters handed to str_list_join
JoinDelims == {NULL} \cup Strs(2)

\* what reading a buffer without a written NUL may deliver
JunkStrs == Strs(1)

\* the string made of the byte d (the empty string for the NUL byte)
DelimStr(d) == IF d = 0 THEN <<>> ELSE <<d>>

\* the position of a call of str_dup2, str_dup3 or str_dup4
DupPc(n) == IF n = 2 THEN "dup2" ELSE IF n = 3 THEN "dup3" ELSE "dup4"

\* either str_split(s, d) is called and str_list_join is then called on its
\* result with the delimiter string(d), or str_list_join is called on a list,
\* or str_dup2, str_dup3 or str_dup4 is called on its parts (kept in parts)
InitText ==
    /\ search = NoSearch
    /\ dict = <<>> /\ dict_live = TRUE
    /\ ldict = <<>> /\ lddict = <<>>
    /\ upserted = [keys |-> {}, lists |-> NoUpserts]
    /\ op = NoOp
    /\ cut = NoCut /\ slice = NoSlice
    /\ mv = NoMove /\ pdict = <<>> /\ has = NoHas
    /\ fault = "none"
    /\ \/ \E s \in TextStrs, d \in DelimBytes :
            text = [from |-> "split", pc |-> "split", s |-> s, d |-> d,
                    parts |-> NullPtr, delim |-> NULL, res |-> NULL, written |-> TRUE]
       \/ \E parts \in PartLists, delim \in JoinDelims :
            text = [from |-> "join", pc |-> "join", s |-> NULL, d |-> 0,
                    parts |-> parts, delim |-> delim, res |-> NULL, written |-> TRUE]
       \/ \E n \in 2..4 : \E parts \in [1..n -> PartElems] :
            text = [from |-> "dup", pc |-> DupPc(n), s |-> NULL, d |-> 0,
                    parts |-> Ptr(parts), delim |-> NULL, res |-> NULL, written |-> TRUE]

\* str_split(s, d)
StrSplit ==
    /\ text.pc = "split"
    /\ text' = [text EXCEPT !.pc = "join",
                            !.parts = str_split(text.s, text.d),
                            !.delim = DelimStr(text.d)]
    /\ UNCHANGED <<search, dict, dict_live, ldict, lddict, upserted, op, cut, slice,
                   mv, pdict, has, fault>>

\* str_list_join(parts, delim).  The caller reads the returned buffer as a
\* string: when str_copy_str_list wrote no byte into it (nothing was copied),
\* the bytes found there are whatever malloc handed out.
StrListJoin ==
    /\ text.pc = "join"
    /\ LET buf == str_list_join(text.parts.at, text.delim) IN
       IF Terminated(buf)
       THEN text' = [text EXCEPT !.pc = "done", !.res = CStr(buf), !.written = TRUE]
       ELSE \E junk \in JunkStrs :
               text' = [text EXCEPT !.pc = "done", !.res = junk, !.written = FALSE]
    /\ UNCHANGED <<search, dict, dict_live, ldict, lddict, upserted, op, cut, slice,
                   mv, pdict, has, fault>>

\* the caller reads the buffer returned as a string
ReadBack(buf) ==
    IF Terminated(buf)
    THEN text' = [text EXCEPT !.pc = "done", !.res = CStr(buf), !.written = TRUE]
    ELSE \E junk \in JunkStrs :
            text' = [text EXCEPT !.pc = "done", !.res = junk, !.written = FALSE]

\* str_dup2(str1, str2)
StrDup2 ==
    /\ text.pc = "dup2"
    /\ ReadBack(str_dup2(text.parts.at[1], text.parts.at[2]))
    /\ UNCHANGED <<search, dict, dict_live, ldict, lddict, upserted, op, cut, slice,
                   mv, pdict, has, fault>>

\* str_dup3(str1, str2, str3)
StrDup3 ==
    /\ text.pc = "dup3"
    /\ ReadBack(str_dup3(text.parts.at[1], text.parts.at[2], text.parts.at[3]))
    /\ UNCHANGED <<search, dict, dict_live, ldict, lddict, upserted, op, cut, slice,
                   mv, pdict, has, fault>>

\* str_dup4(str1, str2, str3, str4)
StrDup4 ==
    /\ text.pc = "dup4"
    /\ ReadBack(str_dup4(text.parts.at[1], text.parts.at[2], text.parts.at[3],
                         text.parts.at[4]))
    /\ UNCHANGED <<search, dict, dict_live, ldict, lddict, upserted, op, cut, slice,
                   mv, pdict, has, fault>>

NextText == StrSplit \/ StrListJoin \/ StrDup2 \/ StrDup3 \/ StrDup4

SpecText == InitText /\ [][NextText]_vars

\* ---------------------------------------------------------------- move calls
\* the lists handed to the move operations: n strings allocated by `who`
\* (no string at all: the object of str_list_new)
ListObj(who, n) ==
    IF n = 0 THEN EmptyObj ELSE Obj([i \in 1..n |-> Elem(who, i)])

\* the list of n lists of one string each
ListListObj(n) ==
    IF n = 0 THEN EmptyObj
    ELSE Obj([i \in 1..n |-> Obj(<<Elem("self", i)>>)])

\* the str_list_dict of the first n keys of LKeys, one string in each list
ListDictObj(n) ==
    IF n = 0 THEN EmptyObj
    ELSE Obj([i \in 1..n |-> [key |-> SortKeys(LKeys)[i],
                              value |-> Obj(<<Elem("self", i)>>)]])

MoveFns == {"str_list_sets", "str_dict_sets", "str_list_dict_sets",
            "str_list_adds_all", "str_list_add_all", "str_list_list_adds",
            "str_list_dict_adds"}

\* a move operation is called on a destination and a source (or the null
\* pointer)
InitMove ==
    /\ search = NoSearch
    /\ dict = <<>> /\ dict_live = TRUE
    /\ ldict = <<>> /\ lddict = <<>>
    /\ upserted = [keys |-> {}, lists |-> NoUpserts]
    /\ op = NoOp
    /\ cut = NoCut /\ slice = NoSlice
    /\ text = NoText /\ pdict = <<>> /\ has = NoHas
    /\ fault = "none"
    /\ \E fn \in MoveFns, n \in 0..MaxMoveLen :
       \E value \in {Ptr(ListObj("value", k)) : k \in 0..MaxMoveLen} \cup {NullPtr} :
       \E key \in IF fn = "str_list_dict_adds" THEN LKeys \cup {NULL} ELSE {NULL} :
        LET self == IF fn = "str_list_list_adds" THEN ListListObj(n)
                    ELSE IF fn = "str_list_dict_adds" THEN ListDictObj(n)
                    ELSE ListObj("self", n)
        IN mv = [fn |-> fn, pc |-> "call", self |-> self, key |-> key,
                 value |-> value, pre |-> self, arg |-> value, frees |-> 0,
                 released |-> {}]

MoveFrame ==
    UNCHANGED <<search, dict, dict_live, ldict, lddict, upserted, op, cut, slice,
                text, pdict, has>>

\* str_list_sets(self, from)
StrListSets ==
    /\ mv.fn = "str_list_sets" /\ mv.pc = "call"
    /\ mv' = [str_list_sets_heap(mv) EXCEPT !.pc = "done"]
    /\ UNCHANGED fault /\ MoveFrame

\* str_dict_sets(self, from)
StrDictSets ==
    /\ mv.fn = "str_dict_sets" /\ mv.pc = "call"
    /\ mv' = [str_dict_sets_heap(mv) EXCEPT !.pc = "done"]
    /\ UNCHANGED fault /\ MoveFrame

\* str_list_dict_sets(self, from)
StrListDictSets ==
    /\ mv.fn = "str_list_dict_sets" /\ mv.pc = "call"
    /\ mv' = [str_list_dict_sets_heap(mv) EXCEPT !.pc = "done"]
    /\ UNCHANGED fault /\ MoveFrame

\* str_list_adds_all(self, value)
StrListAddsAll ==
    /\ mv.fn = "str_list_adds_all" /\ mv.pc = "call"
    /\ mv' = [str_list_adds_all_heap(mv) EXCEPT !.pc = "done"]
    /\ UNCHANGED fault /\ MoveFrame

\* str_list_add_all(self, value): the source consumed is the duplicate
StrListAddAll ==
    /\ mv.fn = "str_list_add_all" /\ mv.pc = "call"
    /\ mv' = [str_list_add_all_heap(mv) EXCEPT !.pc = "done",
                                               !.arg = str_list_dup_heap(mv.value)]
    /\ UNCHANGED fault /\ MoveFrame

\* str_list_list_adds(self, value): line 1384 reads value->size
StrListListAdds ==
    /\ mv.fn = "str_list_list_adds" /\ mv.pc = "call"
    /\ IF mv.value.null
       THEN mv' = [mv EXCEPT !.pc = "fault"] /\ fault' = "segv"
       ELSE mv' = [str_list_list_adds_heap(mv) EXCEPT !.pc = "done"] /\ UNCHANGED fault
    /\ MoveFrame

\* str_list_dict_adds(self, key, value): line 1481 reads value->size
StrListDictAdds ==
    /\ mv.fn = "str_list_dict_adds" /\ mv.pc = "call"
    /\ IF DerefsNull(Cells(mv.self), mv.key, mv.value)
       THEN mv' = [mv EXCEPT !.pc = "fault"] /\ fault' = "segv"
       ELSE mv' = [str_list_dict_adds_heap(mv) EXCEPT !.pc = "done"] /\ UNCHANGED fault
    /\ MoveFrame

\* the caller still holds the pointer it passed as the source (of
\* str_list_add_all it holds the original, not the duplicate)
CallerHoldsSource ==
    mv.pc = "done" /\ ~mv.arg.null /\ mv.fn # "str_list_add_all"

\* the caller destroys the source after the move: str_list_free(value)
\* reads value->data, lines 427-434 and 327
SrcFree ==
    /\ CallerHoldsSource /\ fault = "none"
    /\ IF mv.frees > 0
       THEN mv' = [mv EXCEPT !.pc = "fault"] /\ fault' = "use_after_free"
       ELSE mv' = [str_list_free(mv) EXCEPT !.pc = "destroyed"] /\ UNCHANGED fault
    /\ MoveFrame

\* the caller reuses the source after the move: str_list_adds(value, s)
\* writes value->size, line 1348
SrcReuse ==
    /\ CallerHoldsSource /\ fault = "none"
    /\ IF mv.frees > 0
       THEN mv' = [mv EXCEPT !.pc = "fault"] /\ fault' = "use_after_free"
       ELSE mv' = [mv EXCEPT !.pc = "reused",
                     !.value = Ptr(Obj(Cells(mv.value.at) \o <<Elem("caller", 1)>>))]
            /\ UNCHANGED fault
    /\ MoveFrame

NextMove ==
    \/ StrListSets \/ StrDictSets \/ StrListDictSets
    \/ StrListAddsAll \/ StrListAddAll \/ StrListListAdds \/ StrListDictAdds
    \/ SrcFree \/ SrcReuse

SpecMove == InitMove /\ [][NextMove]_vars

\* ---------------------------------------------------------------- ptr_dict operations
\* ptr_dict_adds(self, key, value); every call with a present key makes the
\* array one entry longer
PtrDictAdds ==
    /\ fault = "none" /\ op.pc = "idle"
    /\ \E key \in DKeys \cup {NULL}, value \in DVals :
        /\ key # NULL => Len(pdict) < MaxSize
        /\ pdict' = ptr_dict_adds(pdict, key, value)
        /\ op' = [name |-> "adds", key |-> key, value |-> value, pre |-> pdict, pc |-> "done"]
    /\ UNCHANGED <<search, dict, dict_live, ldict, lddict, upserted, cut, slice, text, mv, has,
                   fault>>

\* ptr_dict_add(self, key, value)
PtrDictAdd ==
    /\ fault = "none" /\ op.pc = "idle"
    /\ \E key \in DKeys \cup {NULL}, value \in DVals :
        /\ key # NULL => Len(pdict) < MaxSize
        /\ pdict' = ptr_dict_add(pdict, key, value)
        /\ op' = [name |-> "add", key |-> key, value |-> value, pre |-> pdict, pc |-> "done"]
    /\ UNCHANGED <<search, dict, dict_live, ldict, lddict, upserted, cut, slice, text, mv, has,
                   fault>>

NextPtrDict == PtrDictAdds \/ PtrDictAdd \/ Return

SpecPtrDict == InitAll /\ [][NextPtrDict]_vars

\* ---------------------------------------------------------------- contains calls
\* the strings handed to the contains functions
HasStrs == {NULL} \cup DKeys

\* str_list3_contains(s1, s2, s3, key) and str_list_contains([s1, s2, s3], key)
\* are both to be called
InitContains ==
    /\ search = NoSearch
    /\ dict = <<>> /\ dict_live = TRUE
    /\ ldict = <<>> /\ lddict = <<>>
    /\ upserted = [keys |-> {}, lists |-> NoUpserts]
    /\ op = NoOp
    /\ cut = NoCut /\ slice = NoSlice
    /\ text = NoText /\ mv = NoMove /\ pdict = <<>>
    /\ fault = "none"
    /\ \E s1 \in HasStrs, s2 \in HasStrs, s3 \in HasStrs, key \in HasStrs :
        has = [pc3 |-> "call", pcl |-> "call", list |-> <<s1, s2, s3>>, key |-> key,
               res3 |-> FALSE, resl |-> FALSE]

\* str_list3_contains(str1, str2, str3, key)
StrList3Contains ==
    /\ has.pc3 = "call"
    /\ has' = [has EXCEPT !.pc3 = "done",
                          !.res3 = str_list3_contains(has.list[1], has.list[2],
                                                      has.list[3], has.key)]
    /\ UNCHANGED <<search, dict, dict_live, ldict, lddict, upserted, op, cut, slice,
                   text, mv, pdict, fault>>

\* str_list_contains(self, key) on the list of the three strings
StrListContains ==
    /\ has.pcl = "call"
    /\ has' = [has EXCEPT !.pcl = "done", !.resl = str_list_contains(has.list, has.key)]
    /\ UNCHANGED <<search, dict, dict_live, ldict, lddict, upserted, op, cut, slice,
                   text, mv, pdict, fault>>

NextContains == StrList3Contains \/ StrListContains

SpecContains == InitContains /\ [][NextContains]_vars
\* ---------------------------------------------------------------- claims
\* the keys of the array are strictly ascending under str_cmp
StrictlyAscending(data) ==
    \A i \in 1..(Len(data) - 1) : str_cmp(data[i].key, data[i + 1].key) < 0

\* the key is the key of an entry of the array
Stored(data, key) == \E i \in 1..Len(data) : data[i].key = key

\* the entries of the array whose key differs from key, in their order
RECURSIVE Without(_, _)
Without(data, key) ==
    IF data = <<>> THEN <<>>
    ELSE IF data[1].key = key THEN Without(Tail(data), key)
    ELSE <<data[1]>> \o Without(Tail(data), key)

\* the last operation was an upsert (move or copy variant) with a present key
Upserted ==
    op.pc = "done" /\ op.name \in {"adds", "add"} /\ op.key # NULL /\ fault = "none"

\* the number of keys of the array that are strictly smaller than key
CountSmaller(data, key) ==
    Cardinality({i \in 1..Len(data) : str_cmp(data[i].key, key) < 0})

\* C1: after every upsert and every remove the keys of each sorted map are
\* strictly ascending under byte-wise comparison, without a duplicate key.
C1_Sortedness ==
    StrictlyAscending(dict) /\ StrictlyAscending(ldict) /\ StrictlyAscending(lddict)

\* C2: on a strictly ascending array and a present key, find_insertion_pos
\* returns the number of stored keys that are strictly smaller than the key
\* (0 on the empty array, size when the key is greater than all keys).
C2_InsertionPoint ==
    (search.fn = "find_pos" /\ search.pc = "done" /\ search.key # NULL)
        => search.res = CountSmaller(search.data, search.key)

\* a finished search for a key that is not stored and sorts strictly inside
\* an array of at least three keys
C2_Witness ==
    /\ search.fn = "find_pos" /\ search.pc = "done" /\ search.key # NULL
    /\ Len(search.data) >= 3
    /\ search.res > 0 /\ search.res < Len(search.data)
    /\ ~Stored(search.data, search.key)

\* C3: an upsert of a flat map leaves exactly one entry at its key, holding
\* the upserted value, present or absent; the size grows by one when the key
\* was new (the first upsert) and not at all when it was stored (the second).
C3_UpsertTwice ==
    Upserted =>
        /\ Cardinality({i \in 1..Len(dict) : dict[i].key = op.key}) = 1
        /\ \A i \in 1..Len(dict) : dict[i].key = op.key => dict[i].value = op.value
        /\ Len(dict) = Len(op.pre) + (IF Stored(op.pre, op.key) THEN 0 ELSE 1)

\* C4: a list-dict upsert at a stored key appends the elements of the
\* incoming list, in order, after the stored ones; the number of entries and
\* every other entry stay as they were.
C4_ListMerge ==
    (Upserted /\ Stored(op.pre, op.key)) =>
        /\ Len(ldict) = Len(op.pre)
        /\ \A i \in 1..Len(op.pre) :
            IF op.pre[i].key = op.key
            THEN ldict[i] = [key |-> op.key,
                             value |-> op.pre[i].value \o
                                       (IF op.value.null THEN <<>> ELSE op.value.at)]
            ELSE ldict[i] = op.pre[i]

\* [a] then [b] at one key, with another key stored: the key holds [a,b]
C4_Witness ==
    /\ Upserted /\ Len(op.pre) = 2
    /\ str_list_dict_get(op.pre, op.key) = Ptr(<<<<1>>>>)
    /\ op.value = Ptr(<<<<2>>>>)
    /\ str_list_dict_get(ldict, op.key) = Ptr(<<<<1>>, <<2>>>>)

\* C5: keys() is the ascending array of the distinct upserted keys, and
\* get(k) is the concatenation, in upsert order, of the lists upserted at k
\* (absent for a key never upserted).
C5_KeysAndGet ==
    /\ str_list_dict_keys(ldict) = SortKeys(upserted.keys)
    /\ \A k \in LKeys :
        str_list_dict_get(ldict, k) =
            IF k \in upserted.keys THEN Ptr(upserted.lists[k]) ELSE NullPtr

\* the strings of the scenario: "db" < "svc" as <<1>> < <<2>>; the list stored
\* under "svc" is <<Start, Stop>>, the list added under "db" is <<Init0>>
Db == <<1>>

Svc == <<2>>

Start == <<1>>

Stop == <<2>>

Init0 == <<1>>

\* (svc,[start]), (svc,[stop]), (db,[init]) gives keys [db,svc] and
\* get(svc) = [start,stop]
C5_Witness ==
    /\ Upserted /\ op.key = Db /\ op.value = Ptr(<<Init0>>)
    /\ op.pre = <<[key |-> Svc, value |-> <<Start, Stop>>]>>
    /\ str_list_dict_keys(ldict) = <<Db, Svc>>
    /\ str_list_dict_get(ldict, Svc) = Ptr(<<Start, Stop>>)
    /\ str_list_dict_get(ldict, Db) = Ptr(<<Init0>>)

\* C6: remove(key) on a flat map leaves the old entries without the entry of
\* that key, in their order: one entry less when the key was stored, the
\* same map when it was not.
C6_RemoveFrame ==
    (op.pc = "done" /\ op.name = "del" /\ fault = "none") =>
        /\ dict = Without(op.pre, op.key)
        /\ Len(dict) = Len(op.pre) - (IF Stored(op.pre, op.key) THEN 1 ELSE 0)

\* C7: a dict-dict upsert at a stored key replaces the submap by the
\* incoming one and leaves every other entry alone; at a new key it inserts
\* the submap so that the keys stay ascending.
C7_SubmapReplace ==
    (Upserted /\ ~op.value.null) =>
        /\ str_list_dict_dict_get(lddict, op.key) = Ptr(op.value.at)
        /\ Without(lddict, op.key) = Without(op.pre, op.key)
        /\ Len(lddict) = Len(op.pre) + (IF Stored(op.pre, op.key) THEN 0 ELSE 1)
        /\ StrictlyAscending(lddict)

\* a stored submap with one key is replaced by a submap with another key
C7_Witness ==
    /\ Upserted /\ ~op.value.null /\ Stored(op.pre, op.key)
    /\ Len(op.pre) = 2
    /\ Len(str_list_dict_dict_get(op.pre, op.key).at) = 1
    /\ Len(op.value.at) = 1
    /\ str_list_dict_dict_get(op.pre, op.key).at[1].key # op.value.at[1].key
    /\ str_list_dict_dict_get(lddict, op.key) = op.value

\* C8: contains(k) is true exactly for the stored keys, and get(k) is the
\* value of the entry with key k when contains(k) is true, absent otherwise.
C8_LookupsAgree ==
    \A k \in DKeys \cup {NULL} :
        /\ str_dict_contains(dict, k) <=> Stored(dict, k)
        /\ \A i \in 1..Len(dict) :
            (str_dict_contains(dict, k) /\ dict[i].key = k)
                => str_dict_get(dict, k) = dict[i].value
        /\ ~str_dict_contains(dict, k) => str_dict_get(dict, k) = NULL

\* the bytes of s from index start up to, not including, index end; a
\* negative index counts from the end, end is clamped to the length, a start
\* outside of s or an empty or reversed range gives the empty string
CutRef(s, start, end) ==
    LET n == Len(s)
        from == IF start < 0 THEN n + start ELSE start
        to0 == IF end < 0 THEN n + end ELSE end
        to == IF to0 > n THEN n ELSE to0
    IN IF from < 0 \/ from >= n \/ to <= from THEN <<>>
       ELSE SubSeq(s, from + 1, to)

\* C9: cut(s, start, end) is the byte range [start, end) of s with negative
\* indices counted from the end and end clamped to the length, the empty
\* string for a start outside of s or an empty or reversed range; so
\* cut("hello",-3,-1) = "ll", cut("hello",1,100) = "ello", cut("hello",3,1) = "".
C9_Cut ==
    (cut.pc = "done" /\ cut.self # NULL) =>
        /\ cut.res = CutRef(cut.self, cut.a, cut.b)
        /\ (cut.self = Hello /\ cut.a = -3 /\ cut.b = -1) => cut.res = <<108, 108>>
        /\ (cut.self = Hello /\ cut.a = 1 /\ cut.b = 100) => cut.res = <<101, 108, 108, 111>>
        /\ (cut.self = Hello /\ cut.a = 3 /\ cut.b = 1) => cut.res = <<>>

\* cut("hello", 1, 100) has returned "ello"
C9_Witness ==
    /\ cut.fn = "cut" /\ cut.pc = "done"
    /\ cut.self = Hello /\ cut.a = 1 /\ cut.b = 100
    /\ cut.res = <<101, 108, 108, 111>>

\* C10: slice(a, b) holds copies of the elements at the indices a up to
\* min(b, size) - 1 and nothing else, and reads no element at index size or
\* beyond, also when b is at least size.
C10_SliceLikeCut ==
    (slice.pc # "call" /\ slice.fn # "none" /\ ~slice.self.null) =>
        /\ ~slice.behind
        /\ slice.pc = "done"
        /\ slice.res = Ptr(CutRef(slice.self.at, slice.a, slice.b))


\* ---------------------------------------------------------------- claims on split and join
\* the string has no leading, trailing or doubled occurrence of the byte d
Clean(s, d) ==
    /\ Len(s) > 0 => (s[1] # d /\ s[Len(s)] # d)
    /\ \A i \in 1..(Len(s) - 1) : ~(s[i] = d /\ s[i + 1] = d)

\* C11: for every string s free of leading, trailing and doubled delimiters
\* (the empty string included), join(split(s, d), d) is equal to s.
C11_RoundTrip ==
    (text.from = "split" /\ text.pc = "done" /\ text.s # NULL /\ Clean(text.s, text.d))
        => text.res = text.s

\* the maximal runs of bytes of s without the byte d, as pairs <<first, last>>
Runs(s, d) ==
    {r \in (1..Len(s)) \X (1..Len(s)) :
        /\ r[1] <= r[2]
        /\ \A i \in r[1]..r[2] : s[i] # d
        /\ (r[1] = 1 \/ s[r[1] - 1] = d)
        /\ (r[2] = Len(s) \/ s[r[2] + 1] = d)}

\* the runs in the order of their occurrence
RECURSIVE RunSeq(_, _)
RunSeq(s, R) ==
    IF R = {} THEN <<>>
    ELSE LET r == CHOOSE x \in R : \A y \in R : x[1] <= y[1]
         IN <<SubSeq(s, r[1], r[2])>> \o RunSeq(s, R \ {r})

\* C12: split(s, d) returns, in order of occurrence, exactly the maximal runs
\* of bytes of s without d: every token is non-empty and holds no d, doubled,
\* leading and trailing delimiters give no empty token.
C12_SplitTokens ==
    (text.from = "split" /\ text.pc # "split" /\ text.s # NULL) =>
        /\ ~text.parts.null
        /\ text.parts.at = RunSeq(text.s, Runs(text.s, text.d))
        /\ \A i \in 1..Len(text.parts.at) :
            /\ text.parts.at[i] # NULL
            /\ Len(text.parts.at[i]) > 0
            /\ \A j \in 1..Len(text.parts.at[i]) : text.parts.at[i][j] # text.d

\* a string with a leading, a doubled and a trailing delimiter has been split
\* into its two tokens
C12_Witness ==
    /\ text.from = "split" /\ text.pc # "split" /\ text.s # NULL
    /\ Len(text.s) = 4 /\ text.d # 0
    /\ text.s[1] = text.d /\ text.s[3] = text.d /\ text.s[4] = text.d
    /\ text.parts = Ptr(<<<<text.s[2]>>>>)

\* the present elements of the list joined by the delimiter (an absent
\* delimiter adds nothing)
RECURSIVE JoinRef(_, _, _)
JoinRef(parts, delim, first) ==
    IF parts = <<>> THEN <<>>
    ELSE IF parts[1] = NULL THEN JoinRef(Tail(parts), delim, first)
    ELSE (IF first \/ delim = NULL THEN <<>> ELSE delim)
             \o parts[1] \o JoinRef(Tail(parts), delim, FALSE)

\* C13: join(parts, delimiter) is the concatenation of the present elements
\* of parts, in order, with exactly one delimiter between two consecutive
\* present elements and none for an absent element, at the start or the end.
C13_JoinSkipsAbsent ==
    (text.from \in {"split", "join"} /\ text.pc = "done")
        => text.res = JoinRef(text.parts.at, text.delim, TRUE)

\* ---------------------------------------------------------------- claims on ownership
\* a move operation has returned after consuming a source that is not null
Consumed == mv.pc = "done" /\ ~mv.arg.null

\* every string reachable from the destination
Held(o) ==
    IF mv.fn = "str_list_list_adds"
    THEN UNION {Owned(Cells(o)[i]) : i \in 1..Len(Cells(o))}
    ELSE IF mv.fn = "str_list_dict_adds"
    THEN UNION {Owned(Cells(o)[i].value) : i \in 1..Len(Cells(o))}
    ELSE Owned(o)

C19_AppendAllReleases ==
    (mv.pc = "done" /\ mv.fn \in {"str_list_adds_all", "str_list_add_all"} /\ ~mv.arg.null)
        => /\ Cells(mv.self) = Cells(mv.pre) \o Cells(mv.arg.at)
           /\ mv.frees = 1

\* ---------------------------------------------------------------- claims on the order and the searches
\* C15: compare orders an absent string before every present one
\* (compare(absent, present) < 0, compare(present, absent) > 0,
\* compare(absent, absent) = 0), and the binary searches place an absent
\* search key before every stored key.
C15_AbsentFirst ==
    (search.pc = "done" /\ search.key = NULL) =>
        /\ \A i \in 1..Len(search.data) :
              /\ str_cmp(NULL, search.data[i].key) < 0
              /\ str_cmp(search.data[i].key, NULL) > 0
        /\ str_cmp(NULL, NULL) = 0
        /\ search.fn = "find_pos" => search.res = 0

\* C16: on every strictly ascending array and every key, find_exact returns
\* the index i exactly when find_insertion_pos returns i and the key stored
\* at i equals the searched key, and absent exactly when find_insertion_pos
\* returns size or an index whose key differs.
C16_SearchesAgree ==
    (search.fn = "find" /\ search.pc = "done") =>
        LET pos == ptr_dict_find_pos(search.data, search.key) IN
        IF search.res >= 0
        THEN /\ search.res = pos
             /\ AtEqualKey(search.data, pos, search.key)
        ELSE /\ search.res = -1
             /\ ~AtEqualKey(search.data, pos, search.key)

\* find_exact has found the first key of an array of at least three keys
C16_Witness ==
    /\ search.fn = "find" /\ search.pc = "done"
    /\ Len(search.data) >= 3
    /\ search.res = 0
    /\ search.data[1].key = search.key

\* C17: find_exact and find_insertion_pos return after finitely many probes,
\* for every array and every key.
C17_Terminates == <>(search.pc = "done")

\* a search of a key that lies between two keys of an array of at least
\* three keys has returned
C17_Witness ==
    /\ search.pc = "done" /\ search.key # NULL
    /\ Len(search.data) >= 3
    /\ ~Stored(search.data, search.key)
    /\ CountSmaller(search.data, search.key) \in 1..(Len(search.data) - 1)

\* ---------------------------------------------------------------- claims on ptr_dict and on removal
\* C18: after any sequence of ptr_dict_adds / ptr_dict_add calls with present
\* keys, repeated keys included, the array of the opaque-pointer dictionary
\* is strictly ascending by key, without a duplicate key.
C18_PtrDictSorted == StrictlyAscending(pdict)

\* C20: str_dict_del never releases the map object: during and after the
\* call the map stays a live object of the caller and no field of a released
\* object is written.
C20_MapStaysLive == dict_live /\ fault # "abort"

\* ---------------------------------------------------------------- claims on the probes
\* C21: whenever find_exact or find_insertion_pos is about to probe, on an
\* array of size n >= 1, the probed index c and the bounds satisfy
\* 0 <= a <= c < e <= n, so no key outside the array is read; on an array of
\* size 0 no index is probed at all.
C21_ProbesInside ==
    /\ search.pc # "oob"
    /\ search.pc = "loop" =>
        /\ Len(search.data) >= 1
        /\ 0 <= search.a /\ search.a <= search.c
        /\ search.c < search.e /\ search.e <= Len(search.data)

\* a search is about to probe after both bounds have moved inwards
C21_Witness ==
    /\ search.pc = "loop"
    /\ search.a > 0 /\ search.e < Len(search.data)

\* ---------------------------------------------------------------- claims on empty results
\* C22: joining or concatenating nothing yields the empty string: the join of
\* a list of size 0 or of absent elements only, and str_dup2, str_dup3 and
\* str_dup4 of absent parts only, return a terminated string of length 0,
\* never a buffer whose content was not written.
C22_NothingIsEmpty ==
    (/\ text.pc = "done" /\ ~text.parts.null
     /\ \A i \in 1..Len(text.parts.at) : text.parts.at[i] = NULL)
        => (text.written /\ text.res = <<>>)

\* ---------------------------------------------------------------- claims on contains
\* C23: str_list3_contains(s1, s2, s3, key) returns true exactly when key is
\* equal to at least one of s1, s2, s3, and false when it is equal to none,
\* in agreement with str_list_contains on the list [s1, s2, s3].
C23_Contains3 ==
    /\ has.pc3 = "done" =>
        (has.res3 <=> \E i \in 1..3 : has.list[i] = has.key)
    /\ (has.pc3 = "done" /\ has.pcl = "done") => (has.res3 <=> has.resl)
====
